---------------------------- MODULE Spec2Model ----------------------------
(***************************************************************************)
(* A model of the rectangular mesh indexer (rect_mesh.rs) and of the Weak  *)
(* Galerkin basis enumerator (wg_basis.rs).                                *)
(*                                                                         *)
(* Rust vectors are modelled as functions with domain 0..len-1, so that    *)
(* every index keeps the value it has in the source.  Reals (the bounds of *)
(* the domain) are modelled by small integers.  uint arithmetic is done in *)
(* the integers: the only subtraction that can go below zero is the one of *)
(* nb_side_num_for_fe_side on a lesser boundary face, where a negative     *)
(* value v stands for the wrapped residue 2^64 + v.                        *)
(*                                                                         *)
(* A task failure (assert!, fail!, an index out of bounds) is modelled by  *)
(* the outcome Fail; a normal return of v by Ok(v).                        *)
(***************************************************************************)
EXTENDS Integers, Sequences, FiniteSets, TLC

\* ------------------------------------------------------------------ bounds
\* Largest space dimension and largest logical mesh dimension of the mesh checks.
MaxDim == 3
MaxLdim == 3
\* Largest vector length, space dimension and logical dimension of the
\* construction (validation) checks.
MaxNewLen == 2
MaxNewLdim == 2
\* Largest space dimension, number of elements and degree of the basis checks.
MaxBasisDim == 2
MaxBasisFes == 9
MaxDeg == 1
\* Largest number of rows of the system and of columns of the right-hand side
\* of the sparse solves.
MaxRows == 2
MaxCols == 2

VARIABLES
  pc,                  \* "start", "failed" (new_impl failed), "mesh", "basis"
  domain_dim,          \* Monomial::domain_dim of the monomial type M
  min_bounds,          \* arguments of new_impl
  max_bounds,
  mesh_ldims,
  int_polys_deg_lim,   \* arguments of WgBasis::new
  side_polys_deg_lim,
  mesh,                \* the RectMesh once built
  basis,               \* the WgBasis once built
  call,                \* the last query made and its outcome
  la                   \* the solve_sparse call in progress and its outcome

vars == <<pc, domain_dim, min_bounds, max_bounds, mesh_ldims,
          int_polys_deg_lim, side_polys_deg_lim, mesh, basis, call, la>>

\* ----------------------------------------------------------------- helpers
Ok(v) == [ok |-> TRUE, val |-> v]
Fail == [ok |-> FALSE, val |-> 0]

len(v) == Cardinality(DOMAIN v)
Vec(n, S) == [0..(n-1) -> S]

RECURSIVE SumTo(_, _)
\* f[0] + ... + f[n-1]
SumTo(f, n) == IF n <= 0 THEN 0 ELSE SumTo(f, n-1) + f[n-1]

RECURSIVE ProdTo(_, _)
\* f[0] * ... * f[n-1]
ProdTo(f, n) == IF n <= 0 THEN 1 ELSE ProdTo(f, n-1) * f[n-1]

\* ------------------------------------------------- side face auxiliaries
side_face_perp_axis(side_face) == side_face \div 2

side_face_is_lesser_on_perp_axis(side_face) == side_face % 2 = 0

lesser_side_face_perp_to_axis(a) == 2 * a

greater_side_face_perp_to_axis(a) == 2 * a + 1

\* ----------------------------------------------------------- construction
\* mesh_ldims.iter().scan(1, |prod, &ldim| { *prod *= ldim; Some(*prod) })
cumprods_of(ldims) == [r \in DOMAIN ldims |-> ProdTo(ldims, r+1)]

\* for r in range(0, end_dim) { prod *= if r != perp_axis {ldims[r]} else {ldims[r]-1} }
nb_side_cumprod(ldims, perp_axis, end_dim) ==
  ProdTo([r \in DOMAIN ldims |-> IF r # perp_axis THEN ldims[r] ELSE ldims[r] - 1],
         end_dim)

cumprods_nb_side_of(ldims, space_dim) ==
  [perp_axis \in 0..(space_dim-1) |->
     [end_dim \in 0..(space_dim-1) |-> nb_side_cumprod(ldims, perp_axis, end_dim)]]

\* the last component of each side mesh's cumulative products
nb_side_counts_of(cumprods, space_dim) ==
  [a \in 0..(space_dim-1) |-> cumprods[a][space_dim-1]]

\* ~[NBSideNum(0)] + the running sums of all the counts but the last
first_nb_side_nums_of(counts, space_dim) ==
  [a \in 0..(space_dim-1) |-> SumTo(counts, a)]

\* new_impl_asserts with the span only asserted not to be negative.
new_impl_asserts_nonneg_span(space_dim, minb, maxb, ldims) ==
  /\ len(minb) = space_dim
  /\ len(maxb) = space_dim
  /\ len(ldims) = space_dim
  /\ \A r \in 0..(space_dim-1) : maxb[r] - minb[r] >= 0 /\ ldims[r] > 0

\* The three length assertions, then the two assertions made for each axis.
new_impl_asserts(space_dim, minb, maxb, ldims) ==
  /\ len(minb) = space_dim
  /\ len(maxb) = space_dim
  /\ len(ldims) = space_dim
  /\ \A r \in 0..(space_dim-1) : maxb[r] - minb[r] > 0 /\ ldims[r] > 0

new_impl(space_dim, minb, maxb, ldims) ==
  IF ~new_impl_asserts(space_dim, minb, maxb, ldims) THEN Fail
  ELSE LET cumprods_mesh_ldims == cumprods_of(ldims)
           cumprods_nb == cumprods_nb_side_of(ldims, space_dim)
           nb_side_counts_by_perp_axis == nb_side_counts_of(cumprods_nb, space_dim)
       IN Ok([space_dim |-> space_dim,
              min_bounds |-> minb,
              max_bounds |-> maxb,
              mesh_ldims |-> ldims,
              cumprods_mesh_ldims |-> cumprods_mesh_ldims,
              cumprods_nb_side_mesh_ldims_by_perp_axis |-> cumprods_nb,
              first_nb_side_nums_by_perp_axis |->
                first_nb_side_nums_of(nb_side_counts_by_perp_axis, space_dim),
              num_fes |-> cumprods_mesh_ldims[space_dim-1],
              num_nb_sides |-> SumTo(nb_side_counts_by_perp_axis, space_dim),
              num_side_faces_per_fe |-> 2 * space_dim])

\* ------------------------------------------------- element coordinate codec
fe_with_mesh_coords(self, coords) ==
  coords[0] + SumTo([i \in 0..(self.space_dim-1) |->
                       IF i = 0 THEN 0 ELSE coords[i] * self.cumprods_mesh_ldims[i-1]],
                    self.space_dim)

\* fe_mesh_coord without the remainder by the cumulative product through r.
fe_mesh_coord_no_mod(self, r, fe) ==
  IF ~(r < self.space_dim) THEN Fail
  ELSE IF ~(fe < self.num_fes) THEN Fail
  ELSE LET cumprods_preceeding_ldims ==
             IF r = 0 THEN 1 ELSE self.cumprods_mesh_ldims[r-1]
       IN Ok(fe \div cumprods_preceeding_ldims)

fe_mesh_coord(self, r, fe) ==
  IF ~(r < self.space_dim) THEN Fail
  ELSE IF ~(fe < self.num_fes) THEN Fail
  ELSE LET cumprods_preceeding_ldims ==
             IF r = 0 THEN 1 ELSE self.cumprods_mesh_ldims[r-1]
       IN Ok((fe % self.cumprods_mesh_ldims[r]) \div cumprods_preceeding_ldims)

fe_mesh_coords(self, fe) ==
  IF \E r \in 0..(self.space_dim-1) : ~fe_mesh_coord(self, r, fe).ok THEN Fail
  ELSE Ok([r \in 0..(self.space_dim-1) |-> fe_mesh_coord(self, r, fe).val])


\* ------------------------------------------------- non-boundary side codec
RECURSIVE perp_axis_scan_strict(_, _, _)
\* perp_axis_scan taking an axis only when its first side number is below n.
perp_axis_scan_strict(self, n, r) ==
  IF self.first_nb_side_nums_by_perp_axis[r] < n THEN Ok(r)
  ELSE IF r = 0 THEN Fail
  ELSE perp_axis_scan_strict(self, n, r-1)

RECURSIVE perp_axis_scan(_, _, _)
\* The loop of perp_axis_for_nb_side, entered with axis r.
perp_axis_scan(self, n, r) ==
  IF self.first_nb_side_nums_by_perp_axis[r] <= n THEN Ok(r)
  ELSE IF r = 0 THEN Fail
  ELSE perp_axis_scan(self, n, r-1)

perp_axis_for_nb_side(self, n) ==
  IF ~(n < self.num_nb_sides) THEN Fail
  ELSE perp_axis_scan(self, n, self.space_dim - 1)

\* One component of the side mesh coordinates computed by nb_side_geom; the
\* remainder and the quotient fail on a zero divisor.
nb_side_mesh_coord(cumprods_ldims_up_to, orientation_rel_side_num, r) ==
  LET cumprods_preceeding_ldims == IF r = 0 THEN 1 ELSE cumprods_ldims_up_to[r-1]
  IN IF cumprods_ldims_up_to[r] = 0 \/ cumprods_preceeding_ldims = 0 THEN Fail
     ELSE Ok((orientation_rel_side_num % cumprods_ldims_up_to[r])
               \div cumprods_preceeding_ldims)

nb_side_geom(self, n) ==
  LET pa == perp_axis_for_nb_side(self, n)
  IN IF ~pa.ok THEN Fail
     ELSE
       LET a == pa.val
           orientation_rel_side_num == n - self.first_nb_side_nums_by_perp_axis[a]
           cumprods_ldims_up_to == self.cumprods_nb_side_mesh_ldims_by_perp_axis[a]
           coord(r) == nb_side_mesh_coord(cumprods_ldims_up_to,
                                          orientation_rel_side_num, r)
       IN IF \E r \in 0..(self.space_dim-1) : ~coord(r).ok THEN Fail
          ELSE Ok([perp_axis |-> a,
                   mesh_coords |-> [r \in 0..(self.space_dim-1) |-> coord(r).val]])

\* nb_side_with_mesh_coords without the first side number of the axis.
nb_side_with_mesh_coords_no_offset(self, coords, perp_axis) ==
  coords[0]
    + SumTo([r \in 0..(self.space_dim-1) |->
               IF r = 0 THEN 0
               ELSE coords[r]
                      * self.cumprods_nb_side_mesh_ldims_by_perp_axis[perp_axis][r-1]],
            self.space_dim)

nb_side_with_mesh_coords(self, coords, perp_axis) ==
  LET s_a0 == self.first_nb_side_nums_by_perp_axis[perp_axis]
  IN s_a0 + coords[0]
       + SumTo([r \in 0..(self.space_dim-1) |->
                  IF r = 0 THEN 0
                  ELSE coords[r]
                         * self.cumprods_nb_side_mesh_ldims_by_perp_axis[perp_axis][r-1]],
               self.space_dim)

\* ---------------------------------------------------------- Mesh queries
num_oriented_element_shapes(self) == 1

oriented_shape_for_fe(self, fe) == 1

num_side_faces_for_fe(self, fe) == self.num_side_faces_per_fe

num_side_faces_for_shape(self, oshape) == self.num_side_faces_per_fe

dependent_dim_for_oshape_side(self, oshape, side_face) == side_face_perp_axis(side_face)

fe_inclusions_of_nb_side(self, sn) ==
  LET side_geom == nb_side_geom(self, sn)
  IN IF ~side_geom.ok THEN Fail
     ELSE
       LET a == side_geom.val.perp_axis
           lesser_fe == fe_with_mesh_coords(self, side_geom.val.mesh_coords)
           greater_fe ==
             lesser_fe + (IF a = 0 THEN 1 ELSE self.cumprods_mesh_ldims[a-1])
       IN Ok([nb_side_num |-> sn,
              fe1 |-> lesser_fe,
              sideface_in_fe1 |-> greater_side_face_perp_to_axis(a),
              fe2 |-> greater_fe,
              sideface_in_fe2 |-> lesser_side_face_perp_to_axis(a)])

nb_side_num_for_fe_side(self, fe, side_face) ==
  LET a == side_face_perp_axis(side_face)
      fe_coords == fe_mesh_coords(self, fe)
  IN IF ~fe_coords.ok \/ ~(a < self.space_dim) THEN Fail
     ELSE
       LET side_mesh_coords ==
             IF side_face_is_lesser_on_perp_axis(side_face)
             THEN [fe_coords.val EXCEPT ![a] = @ - 1]
             ELSE fe_coords.val
       IN Ok(nb_side_with_mesh_coords(self, side_mesh_coords, a))

is_boundary_side(self, fe, side_face) ==
  LET a == side_face_perp_axis(side_face)
      coord_a == fe_mesh_coord(self, a, fe)
      is_lesser_side == side_face_is_lesser_on_perp_axis(side_face)
  IN IF ~coord_a.ok THEN Fail
     ELSE Ok((coord_a.val = 0 /\ is_lesser_side)
              \/ (~is_lesser_side /\ coord_a.val = self.mesh_ldims[a] - 1))

\* num_boundary_sides counting one boundary cap for each axis instead of two.
num_boundary_sides_one_cap(self) ==
  LET d == self.space_dim
  IN SumTo([perp_axis \in 0..(d-1) |->
              ProdTo([r \in 0..(d-1) |->
                        IF r = perp_axis THEN 1 ELSE self.mesh_ldims[r]], d)],
           d)

num_boundary_sides(self) ==
  LET d == self.space_dim
  IN SumTo([perp_axis \in 0..(d-1) |->
              ProdTo([r \in 0..(d-1) |->
                        IF r = perp_axis THEN 2 ELSE self.mesh_ldims[r]], d)],
           d)

num_non_boundary_sides_for_fe(self, fe) ==
  LET faces == 0..(num_side_faces_for_fe(self, fe) - 1)
  IN IF \E sf \in faces : ~is_boundary_side(self, fe, sf).ok THEN Fail
     ELSE Ok(Cardinality({sf \in faces : is_boundary_side(self, fe, sf).val}))

\* ----------------------------------------------------------- monomials
\* A monomial is its exponent vector over the axes 0..d-1.  The monomial
\* library is not part of the sources: mons_with_deg_lim_asc is modelled from
\* its contract (the monomials within the degree limit, ascending, exponents
\* of lower dimensions more significant).
mon_within_deg_lim(d, deg_lim, mon) ==
  IF deg_lim.kind = "MaxMonDeg" THEN SumTo(mon, d) <= deg_lim.k
  ELSE \A r \in 0..(d-1) : mon[r] <= deg_lim.k

mon_less(d, m1, m2) ==
  \E r \in 0..(d-1) : m1[r] < m2[r] /\ \A q \in 0..(r-1) : m1[q] = m2[q]

RECURSIVE mons_asc(_, _)
\* The monomials of the set S as an ascending sequence (1-based).
mons_asc(d, S) ==
  IF S = {} THEN <<>>
  ELSE LET least == CHOOSE m \in S : \A o \in S \ {m} : mon_less(d, m, o)
       IN <<least>> \o mons_asc(d, S \ {least})

mons_with_deg_lim_asc(d, deg_lim) ==
  mons_asc(d, {mon \in Vec(d, 0..deg_lim.k) : mon_within_deg_lim(d, deg_lim, mon)})

\* -------------------------------------------------------------- WgBasis
RECURSIVE mons_with_zero_exp_dim0(_, _)
\* mons_with_zero_exp filtering on the exponent of axis 0 whatever r is.
mons_with_zero_exp_dim0(mons, r) ==
  IF mons = <<>> THEN <<>>
  ELSE (IF Head(mons)[0] = 0 THEN <<Head(mons)>> ELSE <<>>)
         \o mons_with_zero_exp_dim0(Tail(mons), r)

RECURSIVE mons_with_zero_exp(_, _)
\* mons.iter().filter(|mon| mon.exp(Dim(r)) == Deg(0)).map(|m| m.clone()).collect()
mons_with_zero_exp(mons, r) ==
  IF mons = <<>> THEN <<>>
  ELSE (IF Head(mons)[r] = 0 THEN <<Head(mons)>> ELSE <<>>)
         \o mons_with_zero_exp(Tail(mons), r)

side_mons_by_dep_dim_of(d, side_polys_lim) ==
  LET mons_for_deg_lim == mons_with_deg_lim_asc(d, side_polys_lim)
  IN [r \in 0..(d-1) |-> mons_with_zero_exp(mons_for_deg_lim, r)]

\* WeakGradSolver::wgrads_on_oshape: one weak gradient for each interior
\* monomial, and one for each side monomial of each side face, of the shape.
wgrads_on_oshape(int_mons, side_mons_by_side, os) ==
  [int_mon_wgrads |->
     [monn \in 0..(Len(int_mons)-1) |-> [oshape |-> os, int_mon |-> monn]],
   side_mon_wgrads |->
     [sf \in DOMAIN side_mons_by_side |->
        [monn \in 0..(Len(side_mons_by_side[sf])-1) |->
           [oshape |-> os, side_face |-> sf, side_mon |-> monn]]]]

\* The caches by oriented shape, one push for each os of
\* range(0, mesh.num_oriented_element_shapes()).
compute_wgrads(int_mons, side_mons_by_dep_dim, the_mesh) ==
  LET side_mons_by_side(os) ==
        [sf \in 0..(num_side_faces_for_shape(the_mesh, os)-1) |->
           side_mons_by_dep_dim[dependent_dim_for_oshape_side(the_mesh, os, sf)]]
      wgrads(os) == wgrads_on_oshape(int_mons, side_mons_by_side(os), os)
      oshapes == 0..(num_oriented_element_shapes(the_mesh)-1)
  IN [int_mon_wgrads |-> [os \in oshapes |-> wgrads(os).int_mon_wgrads],
      side_mon_wgrads |-> [os \in oshapes |-> wgrads(os).side_mon_wgrads]]

WgBasis_new(d, the_mesh, int_lim, side_lim) ==
  LET int_mons == mons_with_deg_lim_asc(d, int_lim)
      side_mons_by_dep_dim == side_mons_by_dep_dim_of(d, side_lim)
      mons_per_fe_int == Len(int_mons)
      mons_per_fe_side == Len(side_mons_by_dep_dim[0])
      num_int_els == the_mesh.num_fes * Len(int_mons)
      total_els == num_int_els + the_mesh.num_nb_sides * mons_per_fe_side
      wgrads == compute_wgrads(int_mons, side_mons_by_dep_dim, the_mesh)
  IN [mesh |-> the_mesh,
      int_polys_deg_lim |-> int_lim,
      side_polys_deg_lim |-> side_lim,
      int_mons |-> int_mons,
      side_mons_by_dep_dim |-> side_mons_by_dep_dim,
      mons_per_fe_int |-> mons_per_fe_int,
      mons_per_fe_side |-> mons_per_fe_side,
      total_els |-> total_els,
      num_int_els |-> num_int_els,
      first_nb_side_beln |-> num_int_els,
      int_mon_wgrads |-> wgrads.int_mon_wgrads,
      side_mon_wgrads |-> wgrads.side_mon_wgrads]

sq(x) == x * x

RECURSIVE ub_estimate_fold(_, _, _)
\* range(0, num_fes).fold(tot, ...), taken up to (not including) element fe
ub_estimate_fold(self, tot, fe) ==
  IF fe <= 0 THEN tot
  ELSE LET before == ub_estimate_fold(self, tot, fe - 1)
           nb_sides == num_non_boundary_sides_for_fe(self.mesh, fe - 1)
       IN IF ~before.ok \/ ~nb_sides.ok THEN Fail
          ELSE
            LET int_side_and_side_int_interactions ==
                  2 * self.mons_per_fe_int * nb_sides.val * self.mons_per_fe_side
                side_sidemon_choices == nb_sides.val * self.mons_per_fe_side
                side_side_interactions == sq(side_sidemon_choices)
            IN Ok(before.val + int_side_and_side_int_interactions
                    + side_side_interactions)

ub_estimate_num_bel_bel_common_support_fe_triplets(self) ==
  LET num_fes == self.mesh.num_fes
      int_int_interactions == num_fes * sq(self.mons_per_fe_int)
  IN ub_estimate_fold(self, Ok(int_int_interactions), num_fes)

is_int_supported(self, i) == i < self.num_int_els

\* is_side_supported without the upper limit total_els.
is_side_supported_no_upper(self, i) == self.num_int_els <= i

is_side_supported(self, i) == self.num_int_els <= i /\ i < self.total_els

\* support_int_fe_num taking the remainder instead of the quotient.
support_int_fe_num_mod(self, i) ==
  IF ~(i < self.num_int_els) THEN Fail
  ELSE Ok(i % self.mons_per_fe_int)

support_int_fe_num(self, i) ==
  IF ~is_int_supported(self, i) THEN Fail
  ELSE Ok(i \div self.mons_per_fe_int)

support_nb_side_num(self, i) ==
  IF ~is_side_supported(self, i) THEN Fail
  ELSE LET sides_rel_ix == i - self.first_nb_side_beln
       IN Ok(sides_rel_ix \div self.mons_per_fe_side)

int_rel_mon_num(self, i) ==
  IF ~is_int_supported(self, i) THEN Fail
  ELSE Ok(i % self.mons_per_fe_int)

side_rel_mon_num(self, i) ==
  IF ~is_side_supported(self, i) THEN Fail
  ELSE LET nbsides_rel_ix == i - self.first_nb_side_beln
       IN Ok(nbsides_rel_ix % self.mons_per_fe_side)

int_mon_el_num(self, fe, monn) == Ok(fe * self.mons_per_fe_int + monn)

side_mon_el_num(self, fe, side_face, monn) ==
  LET nb_side_num == nb_side_num_for_fe_side(self.mesh, fe, side_face)
  IN IF ~nb_side_num.ok THEN Fail
     ELSE Ok(self.first_nb_side_beln + (nb_side_num.val * self.mons_per_fe_side) + monn)

side_mons_for_oshape_side(self, oshape, side_face) ==
  LET side_dep_dim == dependent_dim_for_oshape_side(self.mesh, oshape, side_face)
  IN self.side_mons_by_dep_dim[side_dep_dim]

side_mons_for_fe_side(self, fe, side_face) ==
  LET fe_oshape == oriented_shape_for_fe(self.mesh, fe)
  IN side_mons_for_oshape_side(self, fe_oshape, side_face)

\* The slice of the num_coefs solution coefficients fe_side_poly takes and
\* the monomials it pairs them with; a slice past the end fails.
fe_side_poly(self, fe, side_face, num_coefs) ==
  LET fe_side_mons == side_mons_for_fe_side(self, fe, side_face)
      fe_side_first_beln == side_mon_el_num(self, fe, side_face, 0)
  IN IF ~fe_side_first_beln.ok THEN Fail
     ELSE IF fe_side_first_beln.val + Len(fe_side_mons) > num_coefs THEN Fail
     ELSE Ok([from |-> fe_side_first_beln.val,
              to |-> fe_side_first_beln.val + Len(fe_side_mons),
              mons |-> fe_side_mons])

\* &self.int_mon_wgrads[*oshape][*monn], an index out of bounds failing
wgrad_int_mon(self, monn, oshape) ==
  IF oshape \notin DOMAIN self.int_mon_wgrads THEN Fail
  ELSE IF monn \notin DOMAIN self.int_mon_wgrads[oshape] THEN Fail
  ELSE Ok(self.int_mon_wgrads[oshape][monn])

\* &self.side_mon_wgrads[*oshape][*side_face][*monn]
wgrad_side_mon(self, monn, oshape, side_face) ==
  IF oshape \notin DOMAIN self.side_mon_wgrads THEN Fail
  ELSE IF side_face \notin DOMAIN self.side_mon_wgrads[oshape] THEN Fail
  ELSE IF monn \notin DOMAIN self.side_mon_wgrads[oshape][side_face] THEN Fail
  ELSE Ok(self.side_mon_wgrads[oshape][side_face][monn])

\* ------------------------------------------------------------ the system
DegLimKinds == {"MaxMonDeg", "MaxMonFactorDeg"}
DegLims(ks) == [kind : DegLimKinds, k : ks]

VecsUpTo(n, S) == UNION {Vec(m, S) : m \in 0..n}

InitWith(dims, minbs, maxbs, ldimss, int_lims, side_lims) ==
  /\ pc = "start"
  /\ domain_dim \in dims
  /\ min_bounds \in minbs[domain_dim]
  /\ max_bounds \in maxbs[domain_dim]
  /\ mesh_ldims \in ldimss[domain_dim]
  /\ int_polys_deg_lim \in int_lims
  /\ side_polys_deg_lim \in side_lims
  /\ mesh = "none"
  /\ basis = "none"
  /\ call = [op |-> "none"]
  /\ la = [pc |-> "none"]

\* Meshes over the unit box, every vector of the declared length.
Init ==
  InitWith(1..MaxDim,
           [d \in 1..MaxDim |-> Vec(d, {0})],
           [d \in 1..MaxDim |-> Vec(d, {1})],
           [d \in 1..MaxDim |-> Vec(d, 1..MaxLdim)],
           {[kind |-> "MaxMonDeg", k |-> 1]}, {[kind |-> "MaxMonDeg", k |-> 0]})

\* Arbitrary arguments of new_impl: any lengths, spans of either sign, zero
\* logical dimensions.
InitNew ==
  InitWith(1..MaxNewLen,
           [d \in 1..MaxNewLen |-> VecsUpTo(MaxNewLen, 0..1)],
           [d \in 1..MaxNewLen |-> VecsUpTo(MaxNewLen, 0..1)],
           [d \in 1..MaxNewLen |-> VecsUpTo(MaxNewLen, 0..MaxNewLdim)],
           {[kind |-> "MaxMonDeg", k |-> 1]}, {[kind |-> "MaxMonDeg", k |-> 0]})

\* Valid meshes of at most MaxBasisFes elements with every pair of degree limits.
InitBasis ==
  InitWith(1..MaxBasisDim,
           [d \in 1..MaxBasisDim |-> Vec(d, {0})],
           [d \in 1..MaxBasisDim |-> Vec(d, {1})],
           [d \in 1..MaxBasisDim |->
              {ldims \in Vec(d, 1..MaxBasisFes) : ProdTo(ldims, d) <= MaxBasisFes}],
           DegLims(1..MaxDeg), DegLims(0..MaxDeg))

MeshIdle == pc \in {"mesh", "basis"} /\ call.op = "none"
BasisIdle == pc = "basis" /\ call.op = "none"

\* A query is made by a caller that holds no outcome (MeshIdle, BasisIdle);
\* Return hands the outcome over and leaves the caller free to make the next.
Query(c) ==
  /\ call' = c
  /\ UNCHANGED <<pc, domain_dim, min_bounds, max_bounds, mesh_ldims,
                 int_polys_deg_lim, side_polys_deg_lim, mesh, basis, la>>

Return ==
  /\ call.op # "none"
  /\ call' = [op |-> "none"]
  /\ UNCHANGED <<pc, domain_dim, min_bounds, max_bounds, mesh_ldims,
                 int_polys_deg_lim, side_polys_deg_lim, mesh, basis, la>>

\* Element numbers, side numbers, basis numbers and monomial numbers handed
\* to the queries: the valid ones and the first one out of range.
FENums == 0..mesh.num_fes
NBSideNums == 0..mesh.num_nb_sides
SideFaces == 0..(mesh.num_side_faces_per_fe - 1)
Dims == 0..(mesh.space_dim - 1)
\* Coordinates of the elements, and of the sides perpendicular to axis a.
FECoords ==
  LET widest == CHOOSE k \in {mesh.mesh_ldims[r] : r \in Dims} :
                  \A r \in Dims : mesh.mesh_ldims[r] <= k
  IN {c \in Vec(mesh.space_dim, 0..(widest - 1)) :
        \A r \in Dims : c[r] < mesh.mesh_ldims[r]}
SideCoords(a) == {c \in FECoords : c[a] < mesh.mesh_ldims[a] - 1}

\* RectMesh::new / new_with_err_tols, which only hand their arguments on.
NewMesh ==
  /\ pc = "start"
  /\ LET r == new_impl(domain_dim, min_bounds, max_bounds, mesh_ldims)
     IN /\ pc' = IF r.ok THEN "mesh" ELSE "failed"
        /\ mesh' = IF r.ok THEN r.val ELSE mesh
  /\ UNCHANGED <<domain_dim, min_bounds, max_bounds, mesh_ldims,
                 int_polys_deg_lim, side_polys_deg_lim, basis, call, la>>

FeMeshCoords ==
  /\ MeshIdle
  /\ \E fe \in FENums :
       Query([op |-> "fe_mesh_coords", fe |-> fe, res |-> fe_mesh_coords(mesh, fe)])

FeWithMeshCoords ==
  /\ MeshIdle
  /\ \E coords \in FECoords :
       Query([op |-> "fe_with_mesh_coords", coords |-> coords,
              res |-> fe_with_mesh_coords(mesh, coords)])

PerpAxisForNbSide ==
  /\ MeshIdle
  /\ \E n \in NBSideNums :
       Query([op |-> "perp_axis_for_nb_side", n |-> n,
              res |-> perp_axis_for_nb_side(mesh, n)])

NbSideGeom ==
  /\ MeshIdle
  /\ \E n \in NBSideNums :
       Query([op |-> "nb_side_geom", n |-> n, res |-> nb_side_geom(mesh, n)])

NbSideWithMeshCoords ==
  /\ MeshIdle
  /\ \E a \in Dims : \E coords \in SideCoords(a) :
       Query([op |-> "nb_side_with_mesh_coords", coords |-> coords, perp_axis |-> a,
              res |-> nb_side_with_mesh_coords(mesh, coords, a)])

FeInclusionsOfNbSide ==
  /\ MeshIdle
  /\ \E n \in NBSideNums :
       Query([op |-> "fe_inclusions_of_nb_side", n |-> n,
              res |-> fe_inclusions_of_nb_side(mesh, n)])

NbSideNumForFeSide ==
  /\ MeshIdle
  /\ \E fe \in FENums : \E sf \in SideFaces :
       Query([op |-> "nb_side_num_for_fe_side", fe |-> fe, side_face |-> sf,
              res |-> nb_side_num_for_fe_side(mesh, fe, sf)])

IsBoundarySide ==
  /\ MeshIdle
  /\ \E fe \in FENums : \E sf \in SideFaces :
       Query([op |-> "is_boundary_side", fe |-> fe, side_face |-> sf,
              res |-> is_boundary_side(mesh, fe, sf)])

NumBoundarySides ==
  /\ MeshIdle
  /\ Query([op |-> "num_boundary_sides", res |-> num_boundary_sides(mesh)])

NumNonBoundarySidesForFe ==
  /\ MeshIdle
  /\ \E fe \in FENums :
       Query([op |-> "num_non_boundary_sides_for_fe", fe |-> fe,
              res |-> num_non_boundary_sides_for_fe(mesh, fe)])

Next ==
  \/ NewMesh
  \/ FeMeshCoords
  \/ FeWithMeshCoords
  \/ PerpAxisForNbSide
  \/ NbSideGeom
  \/ NbSideWithMeshCoords
  \/ FeInclusionsOfNbSide
  \/ NbSideNumForFeSide
  \/ IsBoundarySide
  \/ NumBoundarySides
  \/ NumNonBoundarySidesForFe
  \/ Return

Spec == Init /\ [][Next]_vars

NextNew == NewMesh

SpecNew == InitNew /\ [][NextNew]_vars

\* WgBasis::new, which takes over the mesh.
NewBasis ==
  /\ pc = "mesh"
  /\ pc' = "basis"
  /\ basis' = WgBasis_new(domain_dim, mesh, int_polys_deg_lim, side_polys_deg_lim)
  /\ UNCHANGED <<domain_dim, min_bounds, max_bounds, mesh_ldims,
                 int_polys_deg_lim, side_polys_deg_lim, mesh, call, la>>

BasisElNums == 0..(basis.total_els + 1)
IntMonNums == 0..basis.mons_per_fe_int
SideMonNums == 0..basis.mons_per_fe_side

UbEstimate ==
  /\ BasisIdle
  /\ Query([op |-> "ub_estimate_num_bel_bel_common_support_fe_triplets",
            res |-> ub_estimate_num_bel_bel_common_support_fe_triplets(basis)])

IsIntSupported ==
  /\ BasisIdle
  /\ \E i \in BasisElNums :
       Query([op |-> "is_int_supported", i |-> i, res |-> is_int_supported(basis, i)])

IsSideSupported ==
  /\ BasisIdle
  /\ \E i \in BasisElNums :
       Query([op |-> "is_side_supported", i |-> i, res |-> is_side_supported(basis, i)])

SupportIntFeNum ==
  /\ BasisIdle
  /\ \E i \in BasisElNums :
       Query([op |-> "support_int_fe_num", i |-> i, res |-> support_int_fe_num(basis, i)])

SupportNbSideNum ==
  /\ BasisIdle
  /\ \E i \in BasisElNums :
       Query([op |-> "support_nb_side_num", i |-> i,
              res |-> support_nb_side_num(basis, i)])

IntRelMonNum ==
  /\ BasisIdle
  /\ \E i \in BasisElNums :
       Query([op |-> "int_rel_mon_num", i |-> i, res |-> int_rel_mon_num(basis, i)])

SideRelMonNum ==
  /\ BasisIdle
  /\ \E i \in BasisElNums :
       Query([op |-> "side_rel_mon_num", i |-> i, res |-> side_rel_mon_num(basis, i)])

IntMonElNum ==
  /\ BasisIdle
  /\ \E fe \in FENums : \E monn \in IntMonNums :
       Query([op |-> "int_mon_el_num", fe |-> fe, monn |-> monn,
              res |-> int_mon_el_num(basis, fe, monn)])

SideMonElNum ==
  /\ BasisIdle
  /\ \E fe \in FENums : \E sf \in SideFaces : \E monn \in SideMonNums :
       Query([op |-> "side_mon_el_num", fe |-> fe, side_face |-> sf, monn |-> monn,
              res |-> side_mon_el_num(basis, fe, sf, monn)])

\* Oriented shape ids: the valid ones and the first one out of range.
OShapes == 0..num_oriented_element_shapes(mesh)

OrientedShapeForFe ==
  /\ BasisIdle
  /\ \E fe \in FENums :
       Query([op |-> "oriented_shape_for_fe", fe |-> fe,
              res |-> oriented_shape_for_fe(mesh, fe)])

WgradIntMon ==
  /\ BasisIdle
  /\ \E monn \in IntMonNums : \E oshape \in OShapes :
       Query([op |-> "wgrad_int_mon", monn |-> monn, oshape |-> oshape,
              res |-> wgrad_int_mon(basis, monn, oshape)])

WgradSideMon ==
  /\ BasisIdle
  /\ \E monn \in SideMonNums : \E oshape \in OShapes : \E sf \in SideFaces :
       Query([op |-> "wgrad_side_mon", monn |-> monn, oshape |-> oshape,
              side_face |-> sf, res |-> wgrad_side_mon(basis, monn, oshape, sf)])

\* fe_side_poly on a solution of total_els coefficients.
FeSidePoly ==
  /\ BasisIdle
  /\ \E fe \in FENums : \E sf \in SideFaces :
       Query([op |-> "fe_side_poly", fe |-> fe, side_face |-> sf,
              res |-> fe_side_poly(basis, fe, sf, basis.total_els)])

NextBasis ==
  \/ NewMesh
  \/ NewBasis
  \/ OrientedShapeForFe
  \/ WgradIntMon
  \/ WgradSideMon
  \/ FeSidePoly
  \/ UbEstimate
  \/ IsIntSupported
  \/ IsSideSupported
  \/ SupportIntFeNum
  \/ SupportNbSideNum
  \/ IntRelMonNum
  \/ SideRelMonNum
  \/ IntMonElNum
  \/ SideMonElNum
  \/ Return

SpecBasis == InitBasis /\ [][NextBasis]_vars

\* ------------------------------------------------------- linear_algebra
\* The matrix types of sparse_matrix: the two solve_sparse dispatches on and
\* one of those its last match arm takes.
MatrixTypes == {"Symmetric", "StructurallySymmetric", "General"}

\* Non-zero statuses of the native routines.
NativeErrorCodes == {-2, -1, 1}

\* The statuses a native routine can report for a system whose stored entries
\* are at the (row, column) positions of entries: a symmetric solve takes the
\* upper triangle only and rejects an entry below the diagonal; every other
\* system is solved (0) or is rejected for its values (singular).
native_statuses(matrix_type, entries) ==
  IF matrix_type = "Symmetric" /\ \E e \in entries : e[2] < e[1]
  THEN NativeErrorCodes
  ELSE {0} \cup NativeErrorCodes

\* The number of entries of x a native routine writes: the n * nrhs entries
\* of the column-major solution once the system is solved.
native_entries_written(n, nrhs, stat) == IF stat = 0 THEN n * nrhs ELSE 0

\* common::vec_with_len: a vector of n entries.
vec_with_len(n) == [i \in 0..(n-1) |-> 0]

\* let n = sys.num_rows(); let mut sol = vec_with_len(n);
solve_sparse_alloc(sys, rhs) ==
  [pc |-> "allocated", sys |-> sys, rhs |-> rhs,
   sol |-> vec_with_len(sys.num_rows), native_calls |-> 0]

\* The match on sys.matrix_type(): one call of the native routine of the
\* type, which reports stat, or the failure of the last arm.
solve_sparse_dispatch(st, stat) ==
  IF st.sys.matrix_type \in {"Symmetric", "StructurallySymmetric"}
  THEN [pc |-> "native_returned", sys |-> st.sys, rhs |-> st.rhs, sol |-> st.sol,
        native_calls |-> st.native_calls + 1, stat |-> stat,
        written |-> native_entries_written(st.sys.num_rows, st.rhs.num_cols, stat)]
  ELSE [pc |-> "failed", sys |-> st.sys, rhs |-> st.rhs,
        native_calls |-> st.native_calls,
        error |-> [msg |-> "TODO: Support umfpack here on OS X."]]

\* if stat != 0 { fail!(...) }, without the second branch of the condition
solve_sparse_check_negative_only(st) ==
  IF st.stat < 0
  THEN [pc |-> "failed", sys |-> st.sys, rhs |-> st.rhs,
        native_calls |-> st.native_calls, stat |-> st.stat, written |-> st.written,
        error |-> [msg |-> "solve_sparse_symmetric_as_ut_csr3 failed with error",
                   stat |-> st.stat]]
  ELSE [pc |-> "returned", sys |-> st.sys, rhs |-> st.rhs,
        native_calls |-> st.native_calls, stat |-> st.stat, written |-> st.written,
        sol |-> st.sol]

\* if stat != 0 { fail!(format!("... failed with error {:d}", stat)); } sol
solve_sparse_check(st) ==
  IF st.stat # 0
  THEN [pc |-> "failed", sys |-> st.sys, rhs |-> st.rhs,
        native_calls |-> st.native_calls, stat |-> st.stat, written |-> st.written,
        error |-> [msg |-> "solve_sparse_symmetric_as_ut_csr3 failed with error",
                   stat |-> st.stat]]
  ELSE [pc |-> "returned", sys |-> st.sys, rhs |-> st.rhs,
        native_calls |-> st.native_calls, stat |-> st.stat, written |-> st.written,
        sol |-> st.sol]

\* The systems and right-hand sides handed to solve_sparse.
Systems ==
  UNION {[matrix_type : MatrixTypes, num_rows : {n},
          entries : SUBSET ((0..(n-1)) \X (0..(n-1)))] : n \in 1..MaxRows}
RightHandSides(n) == [num_rows : {n}, num_cols : 1..MaxCols]

LaUnchanged ==
  UNCHANGED <<pc, domain_dim, min_bounds, max_bounds, mesh_ldims,
              int_polys_deg_lim, side_polys_deg_lim, mesh, basis, call>>

\* solve_sparse is entered and allocates the solution.
SolveSparseAlloc ==
  /\ la.pc = "none"
  /\ \E sys \in Systems : \E rhs \in RightHandSides(sys.num_rows) :
       la' = solve_sparse_alloc(sys, rhs)
  /\ LaUnchanged

\* The native routine is called and reports its status.
SolveSparseDispatch ==
  /\ la.pc = "allocated"
  /\ \E stat \in native_statuses(la.sys.matrix_type, la.sys.entries) :
       la' = solve_sparse_dispatch(la, stat)
  /\ LaUnchanged

\* The status is checked. A native routine that has written past the end of
\* sol has corrupted the heap of the task: the task goes on or is killed.
SolveSparseCheck ==
  /\ la.pc = "native_returned"
  /\ \/ la' = solve_sparse_check(la)
     \/ /\ la.written > len(la.sol)
        /\ la' = [pc |-> "killed", sys |-> la.sys, rhs |-> la.rhs,
                  native_calls |-> la.native_calls, stat |-> la.stat,
                  written |-> la.written]
  /\ LaUnchanged

\* The caller takes the outcome.
SolveSparseDone ==
  /\ la.pc \in {"returned", "failed", "killed"}
  /\ la' = [pc |-> "none"]
  /\ LaUnchanged

InitLA ==
  InitWith({1}, [d \in {1} |-> Vec(d, {0})], [d \in {1} |-> Vec(d, {1})],
           [d \in {1} |-> Vec(d, {1})],
           {[kind |-> "MaxMonDeg", k |-> 1]}, {[kind |-> "MaxMonDeg", k |-> 0]})

NextLA ==
  \/ SolveSparseAlloc
  \/ SolveSparseDispatch
  \/ SolveSparseCheck
  \/ SolveSparseDone

SpecLA == InitLA /\ [][NextLA]_vars

\* =================================================================== claims
RECURSIVE ProdOver(_, _)
\* The product of f[r] over the axes r of the set S.
ProdOver(f, S) ==
  IF S = {} THEN 1
  ELSE LET r == CHOOSE x \in S : TRUE IN f[r] * ProdOver(f, S \ {r})

RECURSIVE SumOver(_, _)
\* The sum of f[r] over the members r of the set S.
SumOver(f, S) ==
  IF S = {} THEN 0
  ELSE LET r == CHOOSE x \in S : TRUE IN f[r] + SumOver(f, S \ {r})

\* The number of faces perpendicular to axis a that two adjacent elements share.
SharedFacesPerpTo(ldims, a) ==
  (ldims[a] - 1) * ProdOver(ldims, DOMAIN ldims \ {a})

\* C1: for every element number fe < num_fes of a mesh built from valid
\* arguments, encoding the coordinates that fe_mesh_coords decodes gives fe back.
C1_FeRoundTrip ==
  (call.op = "fe_mesh_coords" /\ call.fe < mesh.num_fes)
    => /\ call.res.ok
       /\ fe_with_mesh_coords(mesh, call.res.val) = call.fe

\* An element of a three dimensional mesh off every lesser boundary was decoded
\* and encodes back to itself.
C1_Witness ==
  /\ call.op = "fe_mesh_coords"
  /\ mesh.space_dim = 3
  /\ call.fe < mesh.num_fes
  /\ call.res.ok
  /\ \A r \in Dims : call.res.val[r] > 0
  /\ fe_with_mesh_coords(mesh, call.res.val) = call.fe

\* C2: for every non-boundary side number n < num_nb_sides, encoding the
\* perpendicular axis and coordinates that nb_side_geom decodes gives n back.
C2_NbSideRoundTrip ==
  (call.op = "nb_side_geom" /\ call.n < mesh.num_nb_sides)
    => /\ call.res.ok
       /\ nb_side_with_mesh_coords(mesh, call.res.val.mesh_coords,
                                   call.res.val.perp_axis) = call.n

\* A side perpendicular to the last of three axes, not the first of its axis,
\* was decoded and encodes back to itself.
C2_Witness ==
  /\ call.op = "nb_side_geom"
  /\ mesh.space_dim = 3
  /\ call.n < mesh.num_nb_sides
  /\ call.res.ok
  /\ call.res.val.perp_axis = 2
  /\ call.n > mesh.first_nb_side_nums_by_perp_axis[2]
  /\ nb_side_with_mesh_coords(mesh, call.res.val.mesh_coords,
                              call.res.val.perp_axis) = call.n

\* (fe, sf) is one of the two (element, face) pairs of the inclusions incl.
ListsFeSide(incl, fe, sf) ==
  \/ incl.fe1 = fe /\ incl.sideface_in_fe1 = sf
  \/ incl.fe2 = fe /\ incl.sideface_in_fe2 = sf

\* C3: fe_inclusions_of_nb_side and nb_side_num_for_fe_side are mutual
\* inverses: both (element, face) pairs listed for a side n < num_nb_sides map
\* back to n, and the side number of a non-boundary face of an element lists
\* that element and face.
C3_NeighborConsistency ==
  /\ (call.op = "fe_inclusions_of_nb_side" /\ call.n < mesh.num_nb_sides)
       => /\ call.res.ok
          /\ nb_side_num_for_fe_side(mesh, call.res.val.fe1,
                                     call.res.val.sideface_in_fe1) = Ok(call.n)
          /\ nb_side_num_for_fe_side(mesh, call.res.val.fe2,
                                     call.res.val.sideface_in_fe2) = Ok(call.n)
  /\ (/\ call.op = "nb_side_num_for_fe_side"
      /\ call.fe < mesh.num_fes
      /\ ~is_boundary_side(mesh, call.fe, call.side_face).val)
       => /\ call.res.ok
          /\ fe_inclusions_of_nb_side(mesh, call.res.val).ok
          /\ ListsFeSide(fe_inclusions_of_nb_side(mesh, call.res.val).val,
                         call.fe, call.side_face)

\* C5: num_nb_sides is the number of faces shared by two adjacent elements,
\* the sum over the axes a of (ldim[a]-1) * prod of ldim[r] over r # a, and the
\* slice of side numbers of each axis has (ldim[a]-1) * prod ldim[r] members.
C5_NbSideCounts ==
  MeshIdle =>
    /\ mesh.num_nb_sides =
         SumOver([a \in Dims |-> SharedFacesPerpTo(mesh.mesh_ldims, a)], Dims)
    /\ \A a \in Dims :
         LET first == mesh.first_nb_side_nums_by_perp_axis[a]
             next == IF a = mesh.space_dim - 1 THEN mesh.num_nb_sides
                     ELSE mesh.first_nb_side_nums_by_perp_axis[a+1]
         IN next - first = SharedFacesPerpTo(mesh.mesh_ldims, a)

\* C8: num_boundary_sides() is the sum over the axes a of
\* 2 * prod of ldim[r] over r # a.
C8_BoundaryCount ==
  call.op = "num_boundary_sides"
    => call.res = SumOver([a \in Dims |->
                             2 * ProdOver(mesh.mesh_ldims, Dims \ {a})], Dims)

\* The boundary sides of the 2 x 3 mesh were counted, and are 10.
C8_Witness ==
  /\ call.op = "num_boundary_sides"
  /\ mesh.space_dim = 2
  /\ mesh.mesh_ldims[0] = 2
  /\ mesh.mesh_ldims[1] = 3
  /\ call.res = 10

\* The arguments of new_impl that the construction contract rejects.
InvalidConfig ==
  \/ len(min_bounds) # domain_dim
  \/ len(max_bounds) # domain_dim
  \/ len(mesh_ldims) # domain_dim
  \/ \E r \in DOMAIN min_bounds \cap DOMAIN max_bounds :
       max_bounds[r] - min_bounds[r] <= 0
  \/ \E r \in DOMAIN mesh_ldims : mesh_ldims[r] = 0

\* C9: construction fails and returns no mesh whenever a length differs from
\* the domain dimension, a span is not positive or a logical dimension is zero,
\* and succeeds for every other input.
C9_ConstructionValidation ==
  pc # "start" =>
    /\ InvalidConfig <=> pc = "failed"
    /\ pc = "failed" => mesh = "none"
    /\ ~InvalidConfig => pc = "mesh" /\ mesh.mesh_ldims = mesh_ldims

\* Construction failed on vectors of the right lengths with positive spans,
\* for a zero logical dimension alone.
C9_Witness ==
  /\ pc = "failed"
  /\ domain_dim = 2
  /\ len(min_bounds) = 2 /\ len(max_bounds) = 2 /\ len(mesh_ldims) = 2
  /\ \A r \in 0..1 : max_bounds[r] - min_bounds[r] > 0
  /\ mesh_ldims[0] = 0
  /\ mesh_ldims[1] > 0

\* C4: total_els is num_fes * mons_per_fe_int + num_nb_sides * mons_per_fe_side,
\* every basis number below total_els is exactly one of interior supported and
\* side supported, and a number from total_els on is neither.
C4_PartitionCompleteness ==
  pc = "basis" =>
    /\ basis.total_els = mesh.num_fes * basis.mons_per_fe_int
                           + mesh.num_nb_sides * basis.mons_per_fe_side
    /\ call.op = "is_int_supported" =>
         LET side == is_side_supported(basis, call.i)
         IN IF call.i < basis.total_els THEN call.res # side
            ELSE ~call.res /\ ~side
    /\ call.op = "is_side_supported" =>
         LET int == is_int_supported(basis, call.i)
         IN IF call.i < basis.total_els THEN call.res # int
            ELSE ~call.res /\ ~int

\* A basis number of a two dimensional mesh was found side supported, and is
\* not interior supported.
C4_Witness ==
  /\ pc = "basis"
  /\ call.op = "is_side_supported"
  /\ mesh.space_dim = 2
  /\ call.i < basis.total_els
  /\ call.res
  /\ ~is_int_supported(basis, call.i)

\* Face sf of element fe is a face of the mesh that is not on the boundary.
NonBoundaryFace(fe, sf) ==
  /\ fe < mesh.num_fes
  /\ ~is_boundary_side(mesh, fe, sf).val

\* (fe1, sf1) and (fe2, sf2) are the same face of the same element, or the two
\* faces that two elements adjacent along an axis turn to each other.
SamePhysicalSide(fe1, sf1, fe2, sf2) ==
  \/ fe1 = fe2 /\ sf1 = sf2
  \/ LET a == side_face_perp_axis(sf1)
         lower == IF side_face_is_lesser_on_perp_axis(sf1) THEN fe2 ELSE fe1
         upper == IF side_face_is_lesser_on_perp_axis(sf1) THEN fe1 ELSE fe2
     IN /\ side_face_perp_axis(sf2) = a
        /\ side_face_is_lesser_on_perp_axis(sf1) # side_face_is_lesser_on_perp_axis(sf2)
        /\ fe_mesh_coords(mesh, upper).val
             = [fe_mesh_coords(mesh, lower).val EXCEPT ![a] = @ + 1]

\* C6: the side supported numbering is free of collisions: the number that
\* side_mon_el_num gives to monomial m of a non-boundary face is given to
\* (fe', sf', m') only if m' = m and the two faces are the same physical side.
C6_SideNumberingCollisionFree ==
  (/\ pc = "basis"
   /\ call.op = "side_mon_el_num"
   /\ call.monn < basis.mons_per_fe_side
   /\ NonBoundaryFace(call.fe, call.side_face))
    => /\ call.res.ok
       /\ \A fe2 \in 0..(mesh.num_fes - 1) : \A sf2 \in SideFaces :
            \A m2 \in 0..(basis.mons_per_fe_side - 1) :
              (/\ NonBoundaryFace(fe2, sf2)
               /\ side_mon_el_num(basis, fe2, sf2, m2) = call.res)
                => /\ m2 = call.monn
                   /\ SamePhysicalSide(call.fe, call.side_face, fe2, sf2)

\* (a1, b1) is lexicographically less than (a2, b2).
LexLess(a1, b1, a2, b2) == a1 < a2 \/ (a1 = a2 /\ b1 < b2)

\* C7: the ordering law.  For basis numbers i < j < total_els: both interior
\* supported, (element, monomial) of i is lexicographically less than that of
\* j; both side supported, (side, monomial) of i is lexicographically less
\* than that of j; and no side supported number precedes an interior one.
C7_OrderingLaw ==
  pc = "basis" =>
    LET later == (call.i + 1)..(basis.total_els - 1)
    IN /\ (call.op \in {"support_int_fe_num", "int_rel_mon_num"}
             /\ is_int_supported(basis, call.i))
            => /\ call.res.ok
               /\ \A j \in later :
                    is_int_supported(basis, j) =>
                      LexLess(IF call.op = "support_int_fe_num" THEN call.res.val
                              ELSE support_int_fe_num(basis, call.i).val,
                              IF call.op = "int_rel_mon_num" THEN call.res.val
                              ELSE int_rel_mon_num(basis, call.i).val,
                              support_int_fe_num(basis, j).val,
                              int_rel_mon_num(basis, j).val)
       /\ (call.op \in {"support_nb_side_num", "side_rel_mon_num"}
             /\ is_side_supported(basis, call.i))
            => /\ call.res.ok
               /\ \A j \in later :
                    is_side_supported(basis, j) =>
                      LexLess(IF call.op = "support_nb_side_num" THEN call.res.val
                              ELSE support_nb_side_num(basis, call.i).val,
                              IF call.op = "side_rel_mon_num" THEN call.res.val
                              ELSE side_rel_mon_num(basis, call.i).val,
                              support_nb_side_num(basis, j).val,
                              side_rel_mon_num(basis, j).val)
       /\ (call.op = "is_side_supported" /\ call.res)
            => \A j \in later : ~is_int_supported(basis, j)

\* The side of a side supported basis number was asked for; the side carries
\* several monomials, the number is not the first of its side and numbers of
\* a later side follow it.
C7_Witness ==
  /\ pc = "basis"
  /\ call.op = "support_nb_side_num"
  /\ call.res.ok
  /\ basis.mons_per_fe_side > 1
  /\ side_rel_mon_num(basis, call.i).val > 0
  /\ call.i + basis.mons_per_fe_side < basis.total_els
  /\ support_nb_side_num(basis, call.i + basis.mons_per_fe_side).val
       = call.res.val + 1

\* The number of ordered triplets (bel1, bel2, fe) with bel1 and bel2 each
\* supported on the interior of fe or on a non-boundary side of fe.
CommonSupportTriplets ==
  LET fes == 0..(mesh.num_fes - 1)
      nb(fe) == Cardinality({sf \in SideFaces : NonBoundaryFace(fe, sf)})
  IN SumOver([fe \in fes |->
                sq(basis.mons_per_fe_int + nb(fe) * basis.mons_per_fe_side)], fes)

\* C10: ub_estimate_num_bel_bel_common_support_fe_triplets() is an upper bound
\* of the number of triplets (bel1, bel2, fe) with common support on fe.
C10_UpperBound ==
  (pc = "basis" /\ call.op = "ub_estimate_num_bel_bel_common_support_fe_triplets")
    => /\ call.res.ok
       /\ call.res.val >= CommonSupportTriplets

\* C11: solve_sparse returns a solution only if the native routine reported
\* status 0; whenever the routine reports a non-zero status the call fails
\* with an error that carries that status, returns no solution, and has
\* invoked the routine exactly once.
C11_SolveStatus ==
  /\ la.pc = "returned" =>
       /\ la.stat = 0
       /\ la.native_calls = 1
  /\ (la.pc \in {"returned", "failed", "killed"} /\ la.native_calls > 0 /\ la.stat # 0) =>
       /\ la.pc = "failed"
       /\ la.error.stat = la.stat
       /\ "sol" \notin DOMAIN la
       /\ la.native_calls = 1
  /\ (la.pc \in {"native_returned", "returned", "failed", "killed"}) =>
       la.native_calls <= 1

\* A symmetric solve with an entry below the diagonal has failed with a
\* positive status.
C11_Witness ==
  /\ la.pc = "failed"
  /\ la.sys.matrix_type = "Symmetric"
  /\ \E e \in la.sys.entries : e[2] < e[1]
  /\ la.native_calls = 1
  /\ la.stat > 0

\* C12: the solution buffer handed to the native routine holds n * c entries
\* for a right-hand side of c >= 1 columns, the entries the routine writes.
C12_SolutionBufferSize ==
  la.pc \in {"allocated", "native_returned"} =>
    /\ len(la.sol) = la.sys.num_rows * la.rhs.num_cols
    /\ la.pc = "native_returned" => la.written <= len(la.sol)

\* C13: every query handed a number out of its range fails: fe_mesh_coords
\* for fe >= num_fes, perp_axis_for_nb_side and nb_side_geom for
\* n >= num_nb_sides, support_int_fe_num and int_rel_mon_num for a basis
\* element that is not interior supported, support_nb_side_num and
\* side_rel_mon_num for one that is not side supported, int_mon_el_num for
\* fe >= num_fes or monn >= mons_per_fe_int, side_mon_el_num for
\* fe >= num_fes or monn >= mons_per_fe_side.
C13_MeshOutOfRangeFails ==
  /\ (call.op = "fe_mesh_coords" /\ call.fe >= mesh.num_fes) => ~call.res.ok
  /\ (call.op \in {"perp_axis_for_nb_side", "nb_side_geom"}
        /\ call.n >= mesh.num_nb_sides) => ~call.res.ok

C13_SupportOutOfRangeFails ==
  /\ (call.op \in {"support_int_fe_num", "int_rel_mon_num"}
        /\ ~(call.i < basis.num_int_els)) => ~call.res.ok
  /\ (call.op \in {"support_nb_side_num", "side_rel_mon_num"}
        /\ ~(basis.num_int_els <= call.i /\ call.i < basis.total_els)) => ~call.res.ok

C13_IntMonElNumFails ==
  (call.op = "int_mon_el_num"
     /\ (call.fe >= mesh.num_fes \/ call.monn >= basis.mons_per_fe_int)) => ~call.res.ok

C13_SideMonElNumFeFails ==
  (call.op = "side_mon_el_num" /\ call.fe >= mesh.num_fes) => ~call.res.ok

C13_SideMonElNumMonFails ==
  (call.op = "side_mon_el_num" /\ call.monn >= basis.mons_per_fe_side) => ~call.res.ok

C13_OutOfRangeFails ==
  /\ C13_MeshOutOfRangeFails
  /\ C13_SupportOutOfRangeFails
  /\ C13_IntMonElNumFails
  /\ C13_SideMonElNumFeFails
  /\ C13_SideMonElNumMonFails

\* C14: for every axis a and every coordinate vector c of the side mesh of a
\* (c[a] < ldim[a] - 1, c[r] < ldim[r] otherwise), nb_side_geom of
\* nb_side_with_mesh_coords(c, a) returns the perpendicular axis a and the
\* coordinates c.
C14_NbSideCoordsRoundTrip ==
  (/\ call.op = "nb_side_with_mesh_coords"
   /\ call.coords \in SideCoords(call.perp_axis))
    => nb_side_geom(mesh, call.res) =
         Ok([perp_axis |-> call.perp_axis, mesh_coords |-> call.coords])

\* C15: the coordinates nb_side_geom returns for n < num_nb_sides lie in the
\* side mesh of the axis a it returns: below ldim[a] - 1 on a, below ldim[r]
\* on every other axis r.
C15_NbSideGeomInSideMesh ==
  (call.op = "nb_side_geom" /\ call.n < mesh.num_nb_sides)
    => /\ call.res.ok
       /\ LET g == call.res.val
          IN /\ g.mesh_coords[g.perp_axis] < mesh.mesh_ldims[g.perp_axis] - 1
             /\ \A r \in Dims \ {g.perp_axis} : g.mesh_coords[r] < mesh.mesh_ldims[r]

\* C16: fe_inclusions_of_nb_side(n), n < num_nb_sides of perpendicular axis a,
\* returns two elements fe1, fe2 < num_fes whose coordinates differ by one on
\* axis a only (fe2 the greater), with face 2a+1 in fe1 and face 2a in fe2.
C16_InclusionsAdjacent ==
  (call.op = "fe_inclusions_of_nb_side" /\ call.n < mesh.num_nb_sides)
    => /\ call.res.ok
       /\ LET incl == call.res.val
              a == perp_axis_for_nb_side(mesh, call.n).val
          IN /\ incl.fe1 < mesh.num_fes
             /\ incl.fe2 < mesh.num_fes
             /\ fe_mesh_coords(mesh, incl.fe2).val =
                  [r \in Dims |-> fe_mesh_coords(mesh, incl.fe1).val[r]
                                    + (IF r = a THEN 1 ELSE 0)]
             /\ incl.sideface_in_fe1 = 2 * a + 1
             /\ incl.sideface_in_fe2 = 2 * a

\* C17: for fe < num_fes, a face sf of fe that is not on the boundary and
\* monn < mons_per_fe_side, side_mon_el_num(fe, sf, monn) is a side supported
\* basis element number, num_int_els <= result < total_els; equivalently
\* nb_side_num_for_fe_side(fe, sf) < num_nb_sides.
C17_SideMonElNumInRange ==
  (/\ call.op = "side_mon_el_num"
   /\ NonBoundaryFace(call.fe, call.side_face)
   /\ call.monn < basis.mons_per_fe_side)
    => /\ call.res.ok
       /\ basis.num_int_els <= call.res.val
       /\ call.res.val < basis.total_els
       /\ nb_side_num_for_fe_side(mesh, call.fe, call.side_face).val < mesh.num_nb_sides

\* The number of sides new_impl assigns to each axis.
nb_side_counts_by_perp_axis ==
  nb_side_counts_of(mesh.cumprods_nb_side_mesh_ldims_by_perp_axis, mesh.space_dim)

\* C18: for n < num_nb_sides perp_axis_for_nb_side(n) does not fail and
\* returns the axis a whose slice of side numbers holds n: first[a] <= n and
\* n < first[a] + (the number of sides assigned to a), also when some axes
\* have no sides.
C18_PerpAxisSlice ==
  (call.op = "perp_axis_for_nb_side" /\ call.n < mesh.num_nb_sides)
    => /\ call.res.ok
       /\ LET a == call.res.val
          IN /\ a \in Dims
             /\ mesh.first_nb_side_nums_by_perp_axis[a] <= call.n
             /\ call.n < mesh.first_nb_side_nums_by_perp_axis[a]
                           + nb_side_counts_by_perp_axis[a]

\* The axis of the first side of an axis other than 0 has been returned on a
\* mesh with an axis that has no sides.
C18_Witness ==
  /\ call.op = "perp_axis_for_nb_side"
  /\ call.n < mesh.num_nb_sides
  /\ call.res.ok
  /\ call.res.val > 0
  /\ call.n = mesh.first_nb_side_nums_by_perp_axis[call.res.val]
  /\ \E a \in Dims : nb_side_counts_by_perp_axis[a] = 0

\* C19: for fe < num_fes, num_non_boundary_sides_for_fe(fe) is the number of
\* side faces sf of 0..2d-1 for which is_boundary_side(fe, sf) is false.
C19_NonBoundarySideCount ==
  (call.op = "num_non_boundary_sides_for_fe" /\ call.fe < mesh.num_fes)
    => /\ call.res.ok
       /\ call.res.val =
            Cardinality({sf \in SideFaces : ~is_boundary_side(mesh, call.fe, sf).val})

\* C20: oriented_shape_for_fe(fe) is one of the shape ids
\* 0 .. num_oriented_element_shapes()-1 the weak gradient caches are built
\* for, so that wgrad_int_mon and wgrad_side_mon with the shape of an element
\* (and a monomial number and side face in range) are lookups within bounds.
C20_OrientedShapeInCaches ==
  /\ (call.op = "oriented_shape_for_fe" /\ call.fe < mesh.num_fes)
       => call.res \in 0..(num_oriented_element_shapes(mesh) - 1)
  /\ (/\ call.op = "wgrad_int_mon"
      /\ call.monn < basis.mons_per_fe_int
      /\ \E fe \in 0..(mesh.num_fes - 1) : call.oshape = oriented_shape_for_fe(mesh, fe))
       => call.res.ok
  /\ (/\ call.op = "wgrad_side_mon"
      /\ call.monn < basis.mons_per_fe_side
      /\ \E fe \in 0..(mesh.num_fes - 1) : call.oshape = oriented_shape_for_fe(mesh, fe))
       => call.res.ok

\* The position of monomial mon in the sequence mons.
PosIn(mons, mon) == CHOOSE k \in 1..Len(mons) : mons[k] = mon

\* sub holds, once each and in the order of mons, the members of mons whose
\* exponent on axis r is 0.
IsZeroExpSubsequence(sub, mons, r) ==
  /\ {sub[i] : i \in 1..Len(sub)} = {mons[k] : k \in {j \in 1..Len(mons) : mons[j][r] = 0}}
  /\ \A i, j \in 1..Len(sub) : i < j => PosIn(mons, sub[i]) < PosIn(mons, sub[j])

\* C21: for either kind of side degree limit and every axis r,
\* side_mons_by_dep_dim[r] is the subsequence, in the same order, of the
\* degree limited side monomials with exponent 0 on axis r, and its length is
\* mons_per_fe_side, so that the slice fe_side_poly takes for a side has the
\* size of the side's block of basis elements.
C21_SideMonsByDepDim ==
  /\ BasisIdle =>
       \A r \in 0..(domain_dim - 1) :
         /\ IsZeroExpSubsequence(basis.side_mons_by_dep_dim[r],
                                 mons_with_deg_lim_asc(domain_dim, side_polys_deg_lim), r)
         /\ Len(basis.side_mons_by_dep_dim[r]) = basis.mons_per_fe_side
  /\ (call.op = "fe_side_poly" /\ call.res.ok) =>
       /\ call.res.val.to - call.res.val.from = basis.mons_per_fe_side
       /\ call.res.val.mons =
            basis.side_mons_by_dep_dim[side_face_perp_axis(call.side_face)]

\* fe_side_poly has returned the slice of an interior side perpendicular to axis 1, on
\* a basis whose side monomials of that axis are some but not all of the
\* degree limited monomials and are not those of axis 0.
C21_Witness ==
  /\ call.op = "fe_side_poly"
  /\ call.res.ok
  /\ NonBoundaryFace(call.fe, call.side_face)
  /\ side_face_perp_axis(call.side_face) = 1
  /\ side_polys_deg_lim.kind = "MaxMonFactorDeg"
  /\ basis.mons_per_fe_side > 1
  /\ basis.side_mons_by_dep_dim[1] # basis.side_mons_by_dep_dim[0]
  /\ Len(basis.side_mons_by_dep_dim[1])
       < Len(mons_with_deg_lim_asc(domain_dim, side_polys_deg_lim))

=============================================================================
